---- MODULE Spec2Model ----
(***************************************************************************)
(* Model of transientdb's dual-layer browser backend (src/src/web.rs):     *)
(* WebStore keeps an in-memory VecDeque as the source of truth and         *)
(* replicates it to an IndexedDB object store with fire-and-forget tasks;  *)
(* a new instance hydrates the queue from the object store.                *)
(*                                                                         *)
(* The durable layer is the object store that open_database creates:       *)
(* in-line keys at key path "_idb_key" with a key generator.  add() of a   *)
(* value that has no "_idb_key" member stores it under the next generated  *)
(* key (the generator of an object store starts at 1); add() of a value    *)
(* that already has an "_idb_key" member stores it under that key.         *)
(* get_all() returns the records in key order, numbers before strings.     *)
(***************************************************************************)
EXTENDS Integers, Sequences, FiniteSets, TLC

(***************************************************************************)
(* Bounds of the model.                                                    *)
(***************************************************************************)
MaxAppends == 2      \* append calls in one behaviour
MaxSessions == 2     \* WebStore instances constructed on the database
MaxItemsCfg == 2     \* largest configured max_items

(***************************************************************************)
(* Program constants.                                                      *)
(***************************************************************************)
MinFetchSize == 100          \* WebStore::new rejects max_fetch_size < 100
FirstGeneratedKey == 1       \* first key of an auto-increment object store

None == -1                   \* Option::None of idb_key, count, max_bytes

(***************************************************************************)
(* Values.  A value is a JSON object: its payload and, possibly, a member  *)
(* named "_idb_key" that the caller put there (a string here).  LenPayload *)
(* is the length of the serialised object without that member and          *)
(* LenKeyMember the length the member adds.                                *)
(***************************************************************************)
LenPayload == 40
LenKeyMember == 15

NoKey == [kind |-> "none", n |-> 0]
StrKey == [kind |-> "str", n |-> 0]
NumKey(k) == [kind |-> "num", n |-> k]

ValA == [body |-> "a", ukey |-> NoKey]
ValAK == [body |-> "a", ukey |-> StrKey]
Values == {ValA, ValAK}

(***************************************************************************)
(* Arguments of fetch.  FetchCalls: callers that fetch by count and may    *)
(* keep the tokens for remove.  AllFetchCalls: callers that fetch with     *)
(* every combination of count and max_bytes and keep no tokens.            *)
(***************************************************************************)
Counts == {None, 0, 1, 2}
ByteLimits == {None, 50, 120}
FetchCalls == {None, 1, 2} \X {None} \X BOOLEAN
AllFetchCalls == Counts \X ByteLimits \X {FALSE}

Configs == [max_items : 1..MaxItemsCfg, max_fetch_size : {MinFetchSize}]

VARIABLES
  config,             \* WebStore.config (max_items, max_fetch_size)
  items,              \* WebStore.items, head first
  db,                 \* WebStore.db is Some
  temp_key_counter,   \* WebStore.temp_key_counter
  persistence_state,  \* WebStore.persistence_state
  idb,                \* records of the object store "events"
  idb_gen,            \* key generator of the object store
  tasks,              \* spawn_local tasks not yet run, oldest first
  session,            \* number of instances constructed so far
  next_uid,           \* history: records appended so far
  held,               \* caller: tokens kept from a fetch
  acked,              \* caller: held was passed to remove
  last,               \* history: the last call and its result
  run,                \* history: values appended since the queue was empty,
                      \* while no reset, remove or new instance intervened
  mutex,              \* TransientDB.store, the Mutex: 0 or the caller holding it
  callers,            \* TransientDB: each caller's position in its call
  store_b             \* a second WebStore, on a database of another name

vars == <<config, items, db, temp_key_counter, persistence_state, idb,
          idb_gen, tasks, session, next_uid, held, acked, last, run,
          mutex, callers, store_b>>

wrapper_vars == <<mutex, callers>>

store_vars == <<config, items, db, temp_key_counter, persistence_state>>
idb_vars == <<idb, idb_gen>>

(***************************************************************************)
(* Sequence helpers.                                                       *)
(***************************************************************************)
RECURSIVE SumSeq(_)
SumSeq(s) == IF s = <<>> THEN 0 ELSE Head(s) + SumSeq(Tail(s))

Range(s) == {s[i] : i \in 1..Len(s)}

Prefix(s, n) == SubSeq(s, 1, n)

Suffix(s, n) == SubSeq(s, Len(s) - n + 1, Len(s))

Min(a, b) == IF a < b THEN a ELSE b

MaxOf(S) == CHOOSE x \in S : \A y \in S : y <= x

ValuesOf(s) == [i \in 1..Len(s) |-> s[i].value]

UidsOf(s) == {s[i].uid : i \in 1..Len(s)}

(***************************************************************************)
(* TransientDB: the callers of the wrapper.  A caller is idle, or it holds *)
(* the guard of store.lock() ("locked") until its call has returned and    *)
(* the guard is dropped.  ret is what its call returned; once the next     *)
(* call on the wrapper starts only the name of the method is kept.         *)
(***************************************************************************)
Callers == {1, 2}

NoReturn == [op |-> "none"]

IdleCaller == [pc |-> "idle", ret |-> NoReturn]

(***************************************************************************)
(* StoredEvent: idb_key (None or a u32), value, and the history field uid  *)
(* that names the append that created the record (no code reads it).       *)
(***************************************************************************)
StoredEvent(key, value, uid) == [idb_key |-> key, value |-> value, uid |-> uid]

\* variant: records whose keys differ are still compared by value
equals_value_fallback(self, other) ==
  \/ self.idb_key # None /\ other.idb_key # None /\ self.idb_key = other.idb_key
  \/ self.value = other.value

\* impl Equivalent for StoredEvent, the match on the two keys
equals(self, other) ==
  IF self.idb_key # None /\ other.idb_key # None
  THEN self.idb_key = other.idb_key
  ELSE self.value = other.value

\* WebStore::get_item_size: length of the serialised value
get_item_size(item) ==
  LenPayload + (IF item.value.ukey = NoKey THEN 0 ELSE LenKeyMember)


NoValue == [body |-> "", ukey |-> NoKey]
NoEvent == StoredEvent(None, NoValue, None)

(***************************************************************************)
(* The object store.  A durable record is the stored value (its payload    *)
(* and its primary key, which sits in the value at "_idb_key") and the uid *)
(* of the record it was written for.                                       *)
(***************************************************************************)
DurableRecord(pk, body, uid) == [pk |-> pk, body |-> body, uid |-> uid]

\* order of IndexedDB keys: numbers before strings, numbers ascending
PkLess(a, b) ==
  \/ a.kind = "num" /\ b.kind = "str"
  \/ a.kind = b.kind /\ a.n < b.n

\* IDBObjectStore.getAll(): every record, in key order
RECURSIVE get_all(_)
get_all(S) ==
  IF S = {} THEN <<>>
  ELSE LET m == CHOOSE r \in S : \A o \in S \ {r} : PkLess(r.pk, o.pk)
       IN  <<m>> \o get_all(S \ {m})

\* IDBObjectStore.add(value) as write_to_idb calls it: the key comes from
\* the value's "_idb_key" member if it has one, else from the generator;
\* adding under a key that exists is a ConstraintError and stores nothing.
idb_add(S, gen, event) ==
  LET pk == IF event.value.ukey = NoKey THEN NumKey(gen) ELSE event.value.ukey
      taken == \E r \in S : r.pk = pk
      used == event.value.ukey = NoKey \/ (pk.kind = "num" /\ pk.n >= gen)
  IN  IF taken THEN [idb |-> S, gen |-> gen]
      ELSE [idb |-> S \cup {DurableRecord(pk, event.value.body, event.uid)},
            gen |-> IF used THEN pk.n + 1 ELSE gen]

\* IDBObjectStore.delete(key) as delete_from_idb calls it, with a number
idb_delete(S, key) == {r \in S : r.pk # NumKey(key)}

(***************************************************************************)
(* Fire-and-forget tasks.                                                  *)
(***************************************************************************)
WriteTask(event) == [kind |-> "write", key |-> None, event |-> event]
DeleteTask(key) == [kind |-> "delete", key |-> key, event |-> NoEvent]

\* WebStore::persist_event: nothing without a database handle
\* variant: the write is spawned whether or not there is a handle
persist_event_without_handle(has_db, event) == <<WriteTask(event)>>

persist_event(has_db, event) ==
  IF has_db THEN <<WriteTask(event)>> ELSE <<>>

\* WebStore::remove_from_idb: nothing without a database handle
remove_from_idb(has_db, idb_key) ==
  IF has_db THEN <<DeleteTask(idb_key)>> ELSE <<>>

\* the loop "for key in keys { self.remove_from_idb(key) }"
RECURSIVE remove_all_from_idb(_, _)
remove_all_from_idb(has_db, keys) ==
  IF keys = <<>> THEN <<>>
  ELSE remove_from_idb(has_db, Head(keys))
       \o remove_all_from_idb(has_db, Tail(keys))

\* filter_map(|item| item.idb_key): the keys that are Some, in order
RECURSIVE some_keys(_)
some_keys(q) ==
  IF q = <<>> THEN <<>>
  ELSE (IF Head(q).idb_key # None THEN <<Head(q).idb_key>> ELSE <<>>)
       \o some_keys(Tail(q))

(***************************************************************************)
(* WebStore::hydrate, the part after the request succeeded: one queue      *)
(* record per durable record, idb_key read with as_u64 (None for a key     *)
(* that is not a number), "_idb_key" removed from the value.  Every key of *)
(* the model is far below 2^32, so narrowing to u32 and the counter's +1   *)
(* keep the number.                                                        *)
(***************************************************************************)
hydrate_event(r) ==
  StoredEvent(IF r.pk.kind = "num" THEN r.pk.n ELSE None,
              [body |-> r.body, ukey |-> NoKey], r.uid)

hydrate_items(S) ==
  LET all == get_all(S) IN [i \in 1..Len(all) |-> hydrate_event(all[i])]

\* "if let Some(max_key) = ...max() { temp_key_counter = max_key + 1 }"
hydrate_counter(q, counter) ==
  LET keys == Range(some_keys(q))
  IN  IF keys = {} THEN counter ELSE MaxOf(keys) + 1

(***************************************************************************)
(* WebStore::append: the eviction loop.  Returns the queue after the loop  *)
(* and the records popped from the head, oldest first.                     *)
(***************************************************************************)
\* variant: the loop also pops when the queue is exactly full
RECURSIVE enforce_max_items_off_by_one(_, _, _)
enforce_max_items_off_by_one(q, max_items, popped) ==
  IF Len(q) >= max_items /\ q # <<>>
  THEN enforce_max_items_off_by_one(Tail(q), max_items, Append(popped, Head(q)))
  ELSE [items |-> q, popped |-> popped]

\* variant: the loop pops the newest record instead of the oldest
RECURSIVE enforce_max_items_pop_back(_, _, _)
enforce_max_items_pop_back(q, max_items, popped) ==
  IF Len(q) > max_items
  THEN enforce_max_items_pop_back(SubSeq(q, 1, Len(q) - 1), max_items,
                                  Append(popped, q[Len(q)]))
  ELSE [items |-> q, popped |-> popped]

RECURSIVE enforce_max_items(_, _, _)
enforce_max_items(q, max_items, popped) ==
  IF Len(q) > max_items
  THEN enforce_max_items(Tail(q), max_items, Append(popped, Head(q)))
  ELSE [items |-> q, popped |-> popped]

(***************************************************************************)
(* WebStore::fetch: the scan, and the result.                              *)
(***************************************************************************)
\* variant: the count test lets one record too many through
RECURSIVE fetch_scan_count_off_by_one(_, _, _, _, _)
fetch_scan_count_off_by_one(q, accumulated_size, num_items, count, max_bytes) ==
  IF q = <<>> THEN num_items
  ELSE LET item_size == get_item_size(Head(q))
       IN  IF accumulated_size + item_size > max_bytes THEN num_items
           ELSE IF count # None /\ num_items > count THEN num_items
           ELSE fetch_scan_count_off_by_one(Tail(q),
                  accumulated_size + item_size, num_items + 1, count, max_bytes)

\* variant: a record that does not fit is skipped and the scan goes on
RECURSIVE fetch_scan_skips_oversize(_, _, _, _, _)
fetch_scan_skips_oversize(q, accumulated_size, num_items, count, max_bytes) ==
  IF q = <<>> THEN num_items
  ELSE LET item_size == get_item_size(Head(q))
       IN  IF accumulated_size + item_size > max_bytes
           THEN fetch_scan_skips_oversize(Tail(q), accumulated_size,
                                          num_items, count, max_bytes)
           ELSE IF count # None /\ num_items >= count THEN num_items
           ELSE fetch_scan_skips_oversize(Tail(q),
                  accumulated_size + item_size, num_items + 1, count, max_bytes)

RECURSIVE fetch_scan(_, _, _, _, _)
fetch_scan(q, accumulated_size, num_items, count, max_bytes) ==
  IF q = <<>> THEN num_items
  ELSE LET item_size == get_item_size(Head(q))
       IN  IF accumulated_size + item_size > max_bytes THEN num_items
           ELSE IF count # None /\ num_items >= count THEN num_items
           ELSE fetch_scan(Tail(q), accumulated_size + item_size,
                           num_items + 1, count, max_bytes)

\* variant: without max_bytes the scan is bounded by the count alone
fetch_num_items_no_default(q, cfg, count, max_bytes) ==
  IF max_bytes = None
  THEN IF count = None THEN Len(q) ELSE Min(count, Len(q))
  ELSE fetch_scan(q, 0, 0, count, max_bytes)

\* variant: max_fetch_size caps a max_bytes that is given
fetch_num_items_capped(q, cfg, count, max_bytes) ==
  fetch_scan(q, 0, 0, count,
             IF max_bytes = None THEN cfg.max_fetch_size
             ELSE Min(max_bytes, cfg.max_fetch_size))

fetch_num_items(q, cfg, count, max_bytes) ==
  fetch_scan(q, 0, 0, count,
             IF max_bytes = None THEN cfg.max_fetch_size ELSE max_bytes)

NoResult == [present |-> FALSE, batch |-> <<>>, removable |-> <<>>]

\* variant: no early return, an empty batch is returned as a present result
fetch_result_empty_present(q, cfg, count, max_bytes) ==
  LET num_items == fetch_num_items(q, cfg, count, max_bytes)
  IN  [present |-> TRUE,
       batch |-> ValuesOf(Prefix(q, num_items)),
       removable |-> Prefix(q, num_items)]

fetch_result(q, cfg, count, max_bytes) ==
  LET num_items == fetch_num_items(q, cfg, count, max_bytes)
  IN  IF num_items = 0 THEN NoResult
      ELSE [present |-> TRUE,
            batch |-> ValuesOf(Prefix(q, num_items)),
            removable |-> Prefix(q, num_items)]

(***************************************************************************)
(* WebStore::remove: the records a token list matches.                     *)
(***************************************************************************)
matches(data, item) == \E i \in 1..Len(data) : equals(data[i], item)

remove_matching(q, data) == SelectSeq(q, LAMBDA item : matches(data, item))

remove_retain(q, data) == SelectSeq(q, LAMBDA item : ~matches(data, item))

(***************************************************************************)
(* History of calls.                                                       *)
(***************************************************************************)
Call(op) ==
  [op |-> op, count |-> None, max_bytes |-> None, value |-> NoValue,
   tokens |-> <<>>, ok |-> TRUE, has |-> FALSE, result |-> NoResult]

RunAfter(q) == [pure |-> q = <<>>, vals |-> <<>>]

\* The second WebStore as WebStore::new leaves it on a database that did not
\* exist: its own queue and counter, and the object store "events" of its
\* own database.  appended: history, the records appended to it.
NewStoreB ==
  [items |-> <<>>, temp_key_counter |-> 0, held |-> <<>>,
   idb |-> {}, idb_gen |-> FirstGeneratedKey, appended |-> {}]


(***************************************************************************)
(* WebStore::new.  open_ok: open_database succeeded; hydrate_ok: hydrate   *)
(* returned Ok.  The fields are those of the struct literal, then those    *)
(* the match arm and hydrate assign.                                       *)
(***************************************************************************)
\* variant: a failing hydrate leaves the first record it read in the queue
new_items_partial(open_ok, hydrate_ok, S) ==
  IF open_ok
  THEN IF hydrate_ok THEN hydrate_items(S)
       ELSE Prefix(hydrate_items(S), Min(1, Len(hydrate_items(S))))
  ELSE <<>>

new_items(open_ok, hydrate_ok, S) ==
  IF open_ok /\ hydrate_ok THEN hydrate_items(S) ELSE <<>>

new_persistence_state(open_ok, hydrate_ok) ==
  IF open_ok THEN "Persisted" ELSE "MemoryOnly"

Construct(open_ok, hydrate_ok) ==
  /\ items' = new_items(open_ok, hydrate_ok, idb)
  /\ db' = open_ok
  /\ temp_key_counter' = hydrate_counter(items', 0)
  /\ persistence_state' = new_persistence_state(open_ok, hydrate_ok)
  /\ held' = <<>>
  /\ acked' = FALSE
  /\ last' = Call("new")
  /\ run' = RunAfter(items')

\* The first instance, on a database that does not exist yet.
Init ==
  /\ config \in Configs
  /\ idb = {}
  /\ idb_gen = FirstGeneratedKey
  /\ tasks = <<>>
  /\ session = 1
  /\ next_uid = 0
  /\ \E open_ok \in BOOLEAN :
       /\ items = <<>>
       /\ db = open_ok
       /\ temp_key_counter = 0
       /\ persistence_state = new_persistence_state(open_ok, TRUE)
  /\ held = <<>>
  /\ acked = FALSE
  /\ last = Call("new")
  /\ run = RunAfter(<<>>)
  /\ mutex = 0
  /\ callers = [c \in Callers |-> IdleCaller]
  /\ store_b = NewStoreB

\* A later instance on the same database (the page was reloaded, or the
\* first instance was dropped).  Its get_all is queued behind the requests
\* of the earlier tasks, so it reads the object store they left.
new(open_ok, hydrate_ok) ==
  /\ session < MaxSessions
  /\ tasks = <<>>
  /\ session' = session + 1
  /\ Construct(open_ok, hydrate_ok)
  /\ UNCHANGED <<wrapper_vars, store_b, config, idb, idb_gen, tasks, next_uid>>

\* WebStore::is_persisted (WebStore::persistence_state is the field itself)
is_persisted == persistence_state = "Persisted"

\* variant: has_data also reports records that are only in the object store
has_data_checks_durable ==
  /\ last' = [Call("has_data") EXCEPT !.has = items # <<>> \/ idb # {}]
  /\ UNCHANGED <<wrapper_vars, store_b, store_vars, idb_vars, tasks, session, next_uid,
                 held, acked, run>>

\* DataStore::has_data
has_data ==
  /\ last' = [Call("has_data") EXCEPT !.has = items # <<>>]
  /\ UNCHANGED <<wrapper_vars, store_b, store_vars, idb_vars, tasks, session, next_uid,
                 held, acked, run>>

\* variant: reset leaves the newest record in the queue
reset_keeps_newest ==
  /\ items' = IF items = <<>> THEN <<>> ELSE <<items[Len(items)]>>
  /\ tasks' = tasks \o remove_all_from_idb(db, some_keys(items))
  /\ last' = Call("reset")
  /\ run' = RunAfter(items')
  /\ UNCHANGED <<wrapper_vars, store_b, config, db, temp_key_counter, persistence_state, idb_vars,
                 session, next_uid, held, acked>>

\* DataStore::reset
reset ==
  /\ items' = <<>>
  /\ tasks' = tasks \o remove_all_from_idb(db, some_keys(items))
  /\ last' = Call("reset")
  /\ run' = RunAfter(items')
  /\ UNCHANGED <<wrapper_vars, store_b, config, db, temp_key_counter, persistence_state, idb_vars,
                 session, next_uid, held, acked>>

\* variant: without a database handle the record is not queued
append_needs_db(data) ==
  /\ next_uid < MaxAppends
  /\ LET event == StoredEvent(temp_key_counter, data, next_uid)
         after == enforce_max_items(IF db THEN Append(items, event) ELSE items,
                                    config.max_items, <<>>)
     IN  /\ temp_key_counter' = temp_key_counter + 1
         /\ items' = after.items
         /\ tasks' = tasks \o remove_all_from_idb(db, some_keys(after.popped))
                           \o persist_event(db, event)
  /\ next_uid' = next_uid + 1
  /\ last' = [Call("append") EXCEPT !.value = data]
  /\ run' = IF run.pure THEN [run EXCEPT !.vals = Append(@, data)] ELSE run
  /\ UNCHANGED <<wrapper_vars, store_b, config, db, persistence_state, idb_vars, session,
                 held, acked>>

\* variant: the record is pushed at the head of the queue
append_push_front(data) ==
  /\ next_uid < MaxAppends
  /\ LET event == StoredEvent(temp_key_counter, data, next_uid)
         after == enforce_max_items(<<event>> \o items, config.max_items, <<>>)
     IN  /\ temp_key_counter' = temp_key_counter + 1
         /\ items' = after.items
         /\ tasks' = tasks \o remove_all_from_idb(db, some_keys(after.popped))
                           \o persist_event(db, event)
  /\ next_uid' = next_uid + 1
  /\ last' = [Call("append") EXCEPT !.value = data]
  /\ run' = IF run.pure THEN [run EXCEPT !.vals = Append(@, data)] ELSE run
  /\ UNCHANGED <<wrapper_vars, store_b, config, db, persistence_state, idb_vars, session,
                 held, acked>>

\* DataStore::append
append(data) ==
  /\ next_uid < MaxAppends
  /\ LET event == StoredEvent(temp_key_counter, data, next_uid)
         after == enforce_max_items(Append(items, event), config.max_items, <<>>)
     IN  /\ temp_key_counter' = temp_key_counter + 1
         /\ items' = after.items
         /\ tasks' = tasks \o remove_all_from_idb(db, some_keys(after.popped))
                           \o persist_event(db, event)
  /\ next_uid' = next_uid + 1
  /\ last' = [Call("append") EXCEPT !.value = data]
  /\ run' = IF run.pure THEN [run EXCEPT !.vals = Append(@, data)] ELSE run
  /\ UNCHANGED <<wrapper_vars, store_b, config, db, persistence_state, idb_vars, session,
                 held, acked>>

\* variant: fetch takes the batch out of the queue
fetch_consuming(count, max_bytes, keep) ==
  LET result == fetch_result(items, config, count, max_bytes)
  IN  /\ last' = [Call("fetch") EXCEPT !.count = count,
                    !.max_bytes = max_bytes, !.result = result]
      /\ items' = SubSeq(items, Len(result.removable) + 1, Len(items))
      /\ held' = IF keep /\ result.present THEN result.removable ELSE held
      /\ acked' = IF keep /\ result.present THEN FALSE ELSE acked
      /\ UNCHANGED <<wrapper_vars, store_b, config, db, temp_key_counter, persistence_state,
                     idb_vars, tasks, session, next_uid, run>>

\* DataStore::fetch; keep: the caller keeps the tokens of this batch
fetch(count, max_bytes, keep) ==
  LET result == fetch_result(items, config, count, max_bytes)
  IN  /\ last' = [Call("fetch") EXCEPT !.count = count,
                    !.max_bytes = max_bytes, !.result = result]
      /\ held' = IF keep /\ result.present THEN result.removable ELSE held
      /\ acked' = IF keep /\ result.present THEN FALSE ELSE acked
      /\ UNCHANGED <<wrapper_vars, store_b, store_vars, idb_vars, tasks, session, next_uid, run>>

\* variant: a token that matches no queued record makes remove fail
remove_rejects_unmatched ==
  LET unmatched == \E i \in 1..Len(held) :
                     \A j \in 1..Len(items) : ~equals(held[i], items[j])
  IN  /\ items' = IF unmatched THEN items ELSE remove_retain(items, held)
      /\ tasks' = IF unmatched THEN tasks
                  ELSE tasks \o remove_all_from_idb(db,
                                  some_keys(remove_matching(items, held)))
      /\ acked' = TRUE
      /\ last' = [Call("remove") EXCEPT !.tokens = held, !.ok = ~unmatched]
      /\ run' = RunAfter(items')
      /\ UNCHANGED <<wrapper_vars, store_b, config, db, temp_key_counter, persistence_state, idb_vars,
                     session, next_uid, held>>

\* DataStore::remove, called with the tokens the caller holds
remove ==
  /\ items' = remove_retain(items, held)
  /\ tasks' = tasks \o remove_all_from_idb(db,
                         some_keys(remove_matching(items, held)))
  /\ acked' = TRUE
  /\ last' = [Call("remove") EXCEPT !.tokens = held]
  /\ run' = RunAfter(items')
  /\ UNCHANGED <<wrapper_vars, store_b, config, db, temp_key_counter, persistence_state, idb_vars,
                 session, next_uid, held>>

\* variant: the write goes to this store's database whichever handle the
\* task holds
write_to_idb_any_database ==
  /\ tasks # <<>>
  /\ \/ Head(tasks).kind = "write"
     \/ Head(tasks).kind = "store_b" /\ Head(tasks).task.kind = "write"
  /\ LET event == IF Head(tasks).kind = "write" THEN Head(tasks).event
                  ELSE Head(tasks).task.event
         added == idb_add(idb, idb_gen, event)
     IN  idb' = added.idb /\ idb_gen' = added.gen
  /\ tasks' = Tail(tasks)
  /\ last' = Call("write_to_idb")
  /\ UNCHANGED <<wrapper_vars, store_b, store_vars, session, next_uid, held, acked, run>>

\* The oldest task is a write and runs to completion: write_to_idb
write_to_idb ==
  /\ tasks # <<>>
  /\ Head(tasks).kind = "write"
  /\ LET added == idb_add(idb, idb_gen, Head(tasks).event)
     IN  idb' = added.idb /\ idb_gen' = added.gen
  /\ tasks' = Tail(tasks)
  /\ last' = Call("write_to_idb")
  /\ UNCHANGED <<wrapper_vars, store_b, store_vars, session, next_uid, held, acked, run>>

\* variant: a completed delete also takes the oldest record out of the queue
delete_from_idb_drops_head ==
  /\ tasks # <<>>
  /\ Head(tasks).kind = "delete"
  /\ idb' = idb_delete(idb, Head(tasks).key)
  /\ tasks' = Tail(tasks)
  /\ items' = IF items = <<>> THEN items ELSE Tail(items)
  /\ last' = Call("delete_from_idb")
  /\ UNCHANGED <<wrapper_vars, store_b, config, db, temp_key_counter, persistence_state,
                 idb_gen, session, next_uid, held, acked, run>>

\* The oldest task is a delete and runs to completion: delete_from_idb
delete_from_idb ==
  /\ tasks # <<>>
  /\ Head(tasks).kind = "delete"
  /\ idb' = idb_delete(idb, Head(tasks).key)
  /\ tasks' = Tail(tasks)
  /\ last' = Call("delete_from_idb")
  /\ UNCHANGED <<wrapper_vars, store_b, store_vars, idb_gen, session, next_uid, held, acked, run>>

\* variant: a failed task degrades the store to MemoryOnly
task_fails_degrades ==
  /\ tasks # <<>>
  /\ tasks' = Tail(tasks)
  /\ persistence_state' = "MemoryOnly"
  /\ last' = Call("task_fails")
  /\ UNCHANGED <<wrapper_vars, store_b, config, items, db, temp_key_counter, idb_vars, session,
                 next_uid, held, acked, run>>

\* variant: a failed write takes its record out of the queue again
task_fails_rolls_back ==
  /\ tasks # <<>>
  /\ tasks' = Tail(tasks)
  /\ items' = IF Head(tasks).kind = "write"
              THEN SelectSeq(items, LAMBDA item : item.uid # Head(tasks).event.uid)
              ELSE items
  /\ last' = Call("task_fails")
  /\ UNCHANGED <<wrapper_vars, store_b, config, db, temp_key_counter, persistence_state, idb_vars,
                 session, next_uid, held, acked, run>>

\* The oldest task fails (transaction or request error, or the page went
\* away before it ran): it is logged and nothing is stored or deleted.
task_fails ==
  /\ tasks # <<>>
  /\ tasks' = Tail(tasks)
  /\ last' = Call("task_fails")
  /\ UNCHANGED <<wrapper_vars, store_b, store_vars, idb_vars, session, next_uid, held, acked, run>>

Step(calls) ==
  \/ \E open_ok, hydrate_ok \in BOOLEAN : new(open_ok, hydrate_ok)
  \/ has_data
  \/ reset
  \/ \E data \in Values : append(data)
  \/ \E call \in calls : fetch(call[1], call[2], call[3])
  \/ remove
  \/ write_to_idb
  \/ delete_from_idb
  \/ task_fails

Next == Step(FetchCalls)

Spec == Init /\ [][Next]_vars

NextFetch == Step(AllFetchCalls)

SpecFetch == Init /\ [][NextFetch]_vars

(***************************************************************************)
(* WebStore::new from its first line, for any configuration and on a       *)
(* database that an earlier program may have filled.  session = 0: no      *)
(* instance exists; the in-memory fields then have no meaning and hold the *)
(* values of the struct literal.  A panic produces no instance.            *)
(***************************************************************************)
AnyConfigs ==
  [max_items : 0..MaxItemsCfg, max_fetch_size : {MinFetchSize - 1, MinFetchSize}]

ExistingStores ==
  {[idb |-> {}, gen |-> FirstGeneratedKey],
   [idb |-> {DurableRecord(NumKey(FirstGeneratedKey), "a", None)},
    gen |-> FirstGeneratedKey + 1]}

\* variant: only max_fetch_size is validated
new_panics_unless_fetch_size(cfg) == cfg.max_fetch_size < MinFetchSize

\* the two checks at the top of WebStore::new
new_panics(cfg) == cfg.max_fetch_size < MinFetchSize \/ cfg.max_items = 0

InitNew ==
  /\ config \in AnyConfigs
  /\ \E existing \in ExistingStores :
       idb = existing.idb /\ idb_gen = existing.gen
  /\ tasks = <<>>
  /\ session = 0
  /\ next_uid = 0
  /\ items = <<>>
  /\ db = FALSE
  /\ temp_key_counter = 0
  /\ persistence_state = "MemoryOnly"
  /\ held = <<>>
  /\ acked = FALSE
  /\ last = Call("none")
  /\ run = RunAfter(<<>>)
  /\ mutex = 0
  /\ callers = [c \in Callers |-> IdleCaller]
  /\ store_b = NewStoreB

new_checked ==
  /\ session = 0
  /\ last.op = "none"
  /\ IF new_panics(config)
     THEN /\ last' = [Call("new") EXCEPT !.ok = FALSE]
          /\ UNCHANGED <<wrapper_vars, store_b, store_vars, idb_vars, tasks, session, next_uid,
                         held, acked, run>>
     ELSE /\ \E open_ok, hydrate_ok \in BOOLEAN : Construct(open_ok, hydrate_ok)
          /\ session' = 1
          /\ UNCHANGED <<wrapper_vars, store_b, config, idb_vars, tasks, next_uid>>

Constructed == session >= 1

NextNew ==
  \/ new_checked
  \/ Constructed /\ has_data
  \/ Constructed /\ \E data \in Values : append(data)
  \/ Constructed /\ fetch(None, None, FALSE)
  \/ Constructed /\ write_to_idb
  \/ Constructed /\ delete_from_idb
  \/ Constructed /\ task_fails

SpecNew == InitNew /\ [][NextNew]_vars

(***************************************************************************)
(* A store whose database opens and whose durable requests all succeed:    *)
(* every task runs to completion, and a later instance opens and hydrates. *)
(***************************************************************************)
InitPersisted == Init /\ db

NextNoFailure ==
  \/ new(TRUE, TRUE)
  \/ has_data
  \/ reset
  \/ \E data \in Values : append(data)
  \/ \E call \in FetchCalls : fetch(call[1], call[2], call[3])
  \/ remove
  \/ write_to_idb
  \/ delete_from_idb

SpecNoFailure == InitPersisted /\ [][NextNoFailure]_vars

(***************************************************************************)
(* TransientDB over the store: several callers share one wrapper.  Every   *)
(* method is "self.store.lock().unwrap().op(...)": the caller takes the    *)
(* Mutex, the store's method runs, and the guard is dropped when the call  *)
(* returns.  The spawned tasks run on the event loop, between calls.       *)
(***************************************************************************)
\* variant: the lock is handed out although another caller holds it
lock_unguarded(c) ==
  /\ callers[c].pc = "idle"
  /\ mutex' = c
  /\ callers' = [d \in Callers |->
                   IF d = c THEN [pc |-> "locked", ret |-> NoReturn]
                   ELSE [callers[d] EXCEPT !.ret = [op |-> @.op]]]
  /\ last' = Call("lock")
  /\ UNCHANGED <<store_b, store_vars, idb_vars, tasks, session, next_uid, held, acked, run>>

\* self.store.lock().unwrap()
lock(c) ==
  /\ callers[c].pc = "idle"
  /\ mutex = 0
  /\ mutex' = c
  /\ callers' = [d \in Callers |->
                   IF d = c THEN [pc |-> "locked", ret |-> NoReturn]
                   ELSE [callers[d] EXCEPT !.ret = [op |-> @.op]]]
  /\ last' = Call("lock")
  /\ UNCHANGED <<store_b, store_vars, idb_vars, tasks, session, next_uid, held, acked, run>>

\* arguments of fetch: the callers keep the tokens for remove
WrapperFetchCalls == {None, 1} \X {None} \X {TRUE}

\* the holder of the guard has not called the store yet
Delegating == mutex # 0 /\ last.op = "lock"

\* variant: the call returns only when no durable task is pending
unlock_after_tasks(c) ==
  /\ callers[c].pc = "locked"
  /\ mutex = c
  /\ last.op # "lock"
  /\ tasks = <<>>
  /\ mutex' = 0
  /\ callers' = [callers EXCEPT ![c] = [pc |-> "idle", ret |-> last]]
  /\ UNCHANGED <<store_b, store_vars, idb_vars, tasks, session, next_uid, held, acked,
                 last, run>>

\* the store's method has returned: the guard is dropped and the caller gets
\* the method's result
unlock(c) ==
  /\ callers[c].pc = "locked"
  /\ mutex = c
  /\ last.op # "lock"
  /\ mutex' = 0
  /\ callers' = [callers EXCEPT ![c] = [pc |-> "idle", ret |-> last]]
  /\ UNCHANGED <<store_b, store_vars, idb_vars, tasks, session, next_uid, held, acked,
                 last, run>>

\* variant: a spawned task is polled at once, inside the call that spawned it
EventLoopTurn_inside_call == TRUE

\* spawn_local only queues the future: the event loop polls it on a later
\* turn, when the synchronous call that was running has returned
EventLoopTurn == \A c \in Callers : callers[c].pc = "idle"

NextWrapper ==
  \/ \E c \in Callers : lock(c)
  \/ Delegating /\ has_data
  \/ Delegating /\ reset
  \/ Delegating /\ \E data \in Values : append(data)
  \/ Delegating /\ \E call \in WrapperFetchCalls : fetch(call[1], call[2], call[3])
  \/ Delegating /\ remove
  \/ \E c \in Callers : unlock(c)
  \/ EventLoopTurn /\ write_to_idb
  \/ EventLoopTurn /\ delete_from_idb
  \/ EventLoopTurn /\ task_fails

SpecWrapper == Init /\ [][NextWrapper]_vars

\* Whether a call returns does not depend on the value appended nor on the
\* count asked of fetch: one value and one fetch call are enough here.
OneValue == {ValA}

FairFetchCalls == {<<None, None, TRUE>>}

\* the holder of the Mutex runs the store's method
CallStore ==
  /\ Delegating
  /\ \/ has_data
     \/ reset
     \/ \E data \in OneValue : append(data)
     \/ \E call \in FairFetchCalls : fetch(call[1], call[2], call[3])
     \/ remove

\* the method returns and the guard is dropped
Return == \E c \in Callers : unlock(c)

NextWrapperFair ==
  \/ \E c \in Callers : lock(c)
  \/ CallStore
  \/ Return
  \/ EventLoopTurn /\ write_to_idb
  \/ EventLoopTurn /\ delete_from_idb
  \/ EventLoopTurn /\ task_fails

\* The caller that holds the Mutex is scheduled: the store's method, which
\* is synchronous and has only bounded loops, runs and returns.  Nothing is
\* assumed about the callers that do not hold it, nor about the durable
\* tasks, which may stay pending for ever.
SpecWrapperFair ==
  Init /\ [][NextWrapperFair]_vars /\ WF_vars(CallStore) /\ WF_vars(Return)

(***************************************************************************)
(* Two stores in one page, as in test_multiple_stores_isolated: the store  *)
(* above and store_b, constructed with another database_name (and alike    *)
(* otherwise).  Each WebStore owns its queue and counter; open_database    *)
(* opens the database named in its config, so each store has the object    *)
(* store "events" of its own database; a spawned task holds a clone of the *)
(* handle of the store that spawned it.  The tasks of both stores run on   *)
(* the one event loop of the page.  Both stores are given the same value:  *)
(* the records are told apart by the history of who appended them.         *)
(***************************************************************************)
\* the future holds store_b's handle
TasksOfB(ts) == [i \in 1..Len(ts) |-> [kind |-> "store_b", task |-> ts[i]]]

OpsOfB == {"has_data_b", "reset_b", "append_b", "fetch_b", "remove_b",
           "write_to_idb_b", "delete_from_idb_b"}

has_data_b ==
  /\ last' = [Call("has_data_b") EXCEPT !.has = store_b.items # <<>>]
  /\ UNCHANGED <<wrapper_vars, store_b, store_vars, idb_vars, tasks, session, next_uid,
                 held, acked, run>>

reset_b ==
  /\ store_b' = [store_b EXCEPT !.items = <<>>]
  /\ tasks' = tasks \o TasksOfB(remove_all_from_idb(TRUE, some_keys(store_b.items)))
  /\ last' = Call("reset_b")
  /\ UNCHANGED <<wrapper_vars, store_vars, idb_vars, session, next_uid, held, acked, run>>

append_b(data) ==
  /\ next_uid < MaxAppends
  /\ LET event == StoredEvent(store_b.temp_key_counter, data, next_uid)
         after == enforce_max_items(Append(store_b.items, event),
                                    config.max_items, <<>>)
     IN  /\ store_b' = [store_b EXCEPT !.items = after.items,
                                       !.temp_key_counter = @ + 1,
                                       !.appended = @ \cup {next_uid}]
         /\ tasks' = tasks
                       \o TasksOfB(remove_all_from_idb(TRUE, some_keys(after.popped))
                                   \o persist_event(TRUE, event))
  /\ next_uid' = next_uid + 1
  /\ last' = [Call("append_b") EXCEPT !.value = data]
  /\ UNCHANGED <<wrapper_vars, store_vars, idb_vars, session, held, acked, run>>

fetch_b ==
  LET result == fetch_result(store_b.items, config, None, None)
  IN  /\ last' = [Call("fetch_b") EXCEPT !.result = result]
      /\ store_b' = [store_b EXCEPT
                       !.held = IF result.present THEN result.removable ELSE @]
      /\ UNCHANGED <<wrapper_vars, store_vars, idb_vars, tasks, session, next_uid,
                     held, acked, run>>

remove_b ==
  /\ store_b' = [store_b EXCEPT !.items = remove_retain(@, store_b.held)]
  /\ tasks' = tasks \o TasksOfB(remove_all_from_idb(TRUE,
                         some_keys(remove_matching(store_b.items, store_b.held))))
  /\ last' = [Call("remove_b") EXCEPT !.tokens = store_b.held]
  /\ UNCHANGED <<wrapper_vars, store_vars, idb_vars, session, next_uid, held, acked, run>>

write_to_idb_b ==
  /\ tasks # <<>>
  /\ Head(tasks).kind = "store_b"
  /\ Head(tasks).task.kind = "write"
  /\ LET added == idb_add(store_b.idb, store_b.idb_gen, Head(tasks).task.event)
     IN  store_b' = [store_b EXCEPT !.idb = added.idb, !.idb_gen = added.gen]
  /\ tasks' = Tail(tasks)
  /\ last' = Call("write_to_idb_b")
  /\ UNCHANGED <<wrapper_vars, store_vars, idb_vars, session, next_uid, held, acked, run>>

delete_from_idb_b ==
  /\ tasks # <<>>
  /\ Head(tasks).kind = "store_b"
  /\ Head(tasks).task.kind = "delete"
  /\ store_b' = [store_b EXCEPT !.idb = idb_delete(@, Head(tasks).task.key)]
  /\ tasks' = Tail(tasks)
  /\ last' = Call("delete_from_idb_b")
  /\ UNCHANGED <<wrapper_vars, store_vars, idb_vars, session, next_uid, held, acked, run>>

NextTwoStores ==
  \/ has_data
  \/ reset
  \/ \E data \in OneValue : append(data)
  \/ fetch(None, None, TRUE)
  \/ remove
  \/ write_to_idb
  \/ delete_from_idb
  \/ task_fails
  \/ has_data_b
  \/ reset_b
  \/ \E data \in OneValue : append_b(data)
  \/ fetch_b
  \/ remove_b
  \/ write_to_idb_b
  \/ delete_from_idb_b

SpecTwoStores == InitPersisted /\ [][NextTwoStores]_vars

(***************************************************************************)
(* Equivalent::equals of StoredEvent on its own: the tokens handed to      *)
(* remove are Box<dyn Equivalent>, so the other token may be of another    *)
(* concrete type (a token of another backend), for which downcast_ref      *)
(* gives None.                                                             *)
(***************************************************************************)
ValB == [body |-> "b", ukey |-> NoKey]

\* a token of another concrete type, holding a value
ForeignToken(value) == [foreign |-> TRUE, value |-> value]

EqualsSelves ==
  {StoredEvent(key, value, None) : key \in {None, 0, 1}, value \in {ValA, ValAK, ValB}}

EqualsOthers == EqualsSelves \cup {ForeignToken(value) : value \in {ValA, ValAK, ValB}}

\* impl Equivalent for StoredEvent: the downcast, then the match
equals_dyn(self, other) ==
  IF "idb_key" \in DOMAIN other THEN equals(self, other) ELSE FALSE

InitEquals ==
  /\ InitNew
  /\ config = [max_items |-> 1, max_fetch_size |-> MinFetchSize]
  /\ idb = {}

compare ==
  /\ \E self \in EqualsSelves, token \in EqualsOthers :
       last' = [op |-> "equals", self |-> self, other |-> token,
                result |-> equals_dyn(self, token)]
  /\ UNCHANGED <<wrapper_vars, store_b, store_vars, idb_vars, tasks, session, next_uid,
                 held, acked, run>>

NextEquals == compare

SpecEquals == InitEquals /\ [][NextEquals]_vars

(***************************************************************************)
(* The identity keys at their width.  idb_key and temp_key_counter are     *)
(* u32; hydrate reads "_idb_key" with as_u64 and narrows it with "as u32". *)
(* Numbers are written here in 16-bit limbs: a u32 is hi * 2^16 + lo, and  *)
(* a number read by as_u64 has, besides, the part top above 2^32.  The     *)
(* specifications above never bring a key near 2^32, so that "+ 1" is      *)
(* exact there.  An overflowing "+ 1" panics when the build has overflow   *)
(* checks (the dev and test profiles) and wraps to 0 when it has not (the  *)
(* release profile).  The callers go through TransientDB, each method of   *)
(* which is one action here: lock().unwrap(), the store's method, and the  *)
(* drop of the guard.                                                      *)
(***************************************************************************)
W16 == 65536

U32(hi, lo) == [hi |-> hi, lo |-> lo]

U64(top, hi, lo) == [top |-> top, hi |-> hi, lo |-> lo]

U32Max == U32(W16 - 1, W16 - 1)

\* "k as u32": the low 32 bits
as_u32(k) == U32(k.hi, k.lo)

U32Less(a, b) == a.hi < b.hi \/ (a.hi = b.hi /\ a.lo < b.lo)

U64Less(a, b) == a.top < b.top \/ (a.top = b.top /\ U32Less(as_u32(a), as_u32(b)))

\* "+ 1" on a u32 that is not u32::MAX
u32_succ(k) == IF k.lo < W16 - 1 THEN U32(k.hi, k.lo + 1) ELSE U32(k.hi + 1, 0)

\* "+ 1" on a u32 in a build without overflow checks
u32_add_one(k) == IF k = U32Max THEN U32(0, 0) ELSE u32_succ(k)

\* iter().filter_map(|e| e.idb_key).max()
u32_max_key(q) ==
  CHOOSE k \in {q[i].idb_key : i \in 1..Len(q)} :
    \A i \in 1..Len(q) : ~U32Less(k, q[i].idb_key)

\* Keys of durable records that earlier instances left: the first generated
\* key, and keys that appended values brought along in their own "_idb_key"
\* member (u32::MAX - 1, u32::MAX, 2^32 + 1).
DurableKeys ==
  {U64(0, 0, 1), U64(0, W16 - 1, W16 - 2), U64(0, W16 - 1, W16 - 1), U64(1, 0, 1)}

WideRecord(k) == [pk |-> k, body |-> "a", uid |-> None]

\* get_all returns the records in key order
RECURSIVE get_all_wide(_)
get_all_wide(S) ==
  IF S = {} THEN <<>>
  ELSE LET r == CHOOSE x \in S : \A y \in S : ~U64Less(y.pk, x.pk)
       IN  <<r>> \o get_all_wide(S \ {r})

\* the loop of hydrate
hydrate_items_u32(S) ==
  LET all == get_all_wide(S)
  IN  [i \in 1..Len(all) |-> StoredEvent(as_u32(all[i].pk), ValA, None)]

RECURSIVE delete_tasks_u32(_)
delete_tasks_u32(q) ==
  IF q = <<>> THEN <<>>
  ELSE <<DeleteTask(Head(q).idb_key)>> \o delete_tasks_u32(Tail(q))

\* the Mutex after a panic inside the store: poisoned where the panic unwinds
\* (the guard is dropped while panicking), still locked where it aborts
Poisoned == -1

\* the key generator is past every key that was stored
wide_gen(keys) ==
  IF keys = {} THEN U64(0, 0, FirstGeneratedKey)
  ELSE LET m == CHOOSE k \in keys : \A j \in keys : ~U64Less(k, j)
       IN  IF as_u32(m) = U32Max THEN U64(m.top + 1, 0, 0)
           ELSE LET n == u32_succ(as_u32(m)) IN U64(m.top, n.hi, n.lo)

InitKeys ==
  /\ config \in Configs
  /\ \E keys \in SUBSET DurableKeys :
       /\ idb = {WideRecord(k) : k \in keys}
       /\ idb_gen = wide_gen(keys)
  /\ tasks = <<>>
  /\ session = 0
  /\ next_uid = 0
  /\ items = <<>>
  /\ db = FALSE
  /\ temp_key_counter = U32(0, 0)
  /\ persistence_state = "MemoryOnly"
  /\ held = <<>>
  /\ acked = FALSE
  /\ last = Call("none")
  /\ run = RunAfter(<<>>)
  /\ mutex = 0
  /\ callers = [c \in Callers |-> IdleCaller]
  /\ store_b = NewStoreB

\* WebStore::new on that database, which opens; TransientDB::new around it
new_u32 ==
  /\ session = 0
  /\ last.op = "none"
  /\ LET hydrated == hydrate_items_u32(idb)
     IN  \E overflow_checks \in BOOLEAN :
           IF hydrated # <<>> /\ u32_max_key(hydrated) = U32Max /\ overflow_checks
           THEN \* "max_key + 1" panics: no store is constructed
                /\ last' = [Call("new") EXCEPT !.ok = FALSE]
                /\ UNCHANGED <<items, db, temp_key_counter, persistence_state,
                               session>>
           ELSE /\ items' = hydrated
                /\ temp_key_counter' = IF hydrated = <<>> THEN U32(0, 0)
                                       ELSE u32_add_one(u32_max_key(hydrated))
                /\ db' = TRUE
                /\ persistence_state' = "Persisted"
                /\ session' = 1
                /\ last' = Call("new")
  /\ UNCHANGED <<wrapper_vars, store_b, config, idb_vars, tasks, next_uid, held, acked, run>>

\* lock().unwrap() panics: the call fails before it reaches the store
call_panics(op) ==
  /\ mutex = Poisoned
  /\ last' = [Call(op) EXCEPT !.ok = FALSE]
  /\ UNCHANGED <<wrapper_vars, store_b, store_vars, idb_vars, tasks, session, next_uid,
                 held, acked, run>>

\* TransientDB::has_data
db_has_data ==
  /\ Constructed
  /\ \/ call_panics("has_data")
     \/ /\ mutex = 0
        /\ last' = [Call("has_data") EXCEPT !.has = items # <<>>]
        /\ UNCHANGED <<wrapper_vars, store_b, store_vars, idb_vars, tasks, session,
                       next_uid, held, acked, run>>

\* TransientDB::reset
db_reset ==
  /\ Constructed
  /\ \/ call_panics("reset")
     \/ /\ mutex = 0
        /\ items' = <<>>
        /\ tasks' = tasks \o delete_tasks_u32(items)
        /\ last' = Call("reset")
        /\ UNCHANGED <<wrapper_vars, store_b, config, db, temp_key_counter,
                       persistence_state, idb_vars, session, next_uid, held, acked,
                       run>>

\* TransientDB::append
db_append(data) ==
  /\ Constructed
  /\ next_uid < MaxAppends
  /\ \/ call_panics("append")
     \/ /\ mutex = 0
        /\ \E overflow_checks \in BOOLEAN :
             IF temp_key_counter = U32Max /\ overflow_checks
             THEN \* "self.temp_key_counter += 1" panics while the guard is held
                  /\ mutex' = Poisoned
                  /\ last' = [Call("append") EXCEPT !.value = data, !.ok = FALSE]
                  /\ UNCHANGED <<callers, store_b, store_vars, idb_vars, tasks,
                                 session, next_uid, held, acked, run>>
             ELSE LET event == StoredEvent(temp_key_counter, data, next_uid)
                      after == enforce_max_items(Append(items, event),
                                                 config.max_items, <<>>)
                  IN  /\ temp_key_counter' = u32_add_one(temp_key_counter)
                      /\ items' = after.items
                      /\ tasks' = tasks \o delete_tasks_u32(after.popped)
                                        \o <<WriteTask(event)>>
                      /\ next_uid' = next_uid + 1
                      /\ last' = [Call("append") EXCEPT !.value = data]
                      /\ UNCHANGED <<wrapper_vars, store_b, config, db,
                                     persistence_state, idb_vars, session, held,
                                     acked, run>>

NextKeys ==
  \/ new_u32
  \/ db_has_data
  \/ db_reset
  \/ \E data \in OneValue : db_append(data)

SpecKeys == InitKeys /\ [][NextKeys]_vars

(***************************************************************************)
(* Types.                                                                  *)
(***************************************************************************)
TypeOK ==
  /\ config \in AnyConfigs
  /\ Constructed => config \in Configs
  /\ db \in BOOLEAN
  /\ temp_key_counter \in Nat
  /\ persistence_state \in {"Persisted", "MemoryOnly"}
  /\ \A i \in 1..Len(items) : items[i].idb_key \in Nat \cup {None}
  /\ session \in 0..MaxSessions
  /\ next_uid \in 0..MaxAppends


(***************************************************************************)
(* C1.  In every reachable state of a constructed store, right after       *)
(* construction and hydration included, the queue holds at most max_items  *)
(* records.                                                                *)
(***************************************************************************)
C1_QueueWithinMaxItems == Len(items) <= config.max_items

WithoutUids(q, U) == SelectSeq(q, LAMBDA item : item.uid \notin U)

RECURSIVE TotalSize(_)
TotalSize(q) == IF q = <<>> THEN 0 ELSE get_item_size(Head(q)) + TotalSize(Tail(q))

\* length of the longest prefix of q whose records add up to at most b bytes
LongestPrefixWithin(q, b) ==
  CHOOSE n \in 0..Len(q) :
    /\ TotalSize(Prefix(q, n)) <= b
    /\ \A m \in (n + 1)..Len(q) : TotalSize(Prefix(q, m)) > b

AsItems(vals) == [i \in 1..Len(vals) |-> [value |-> vals[i]]]

(***************************************************************************)
(* C3.  remove called with the tokens of the fetch just before it deletes  *)
(* exactly the records of that batch and no others, the remaining records  *)
(* keep their order, and no fetch after it returns a record of the batch.  *)
(***************************************************************************)
C3_RemoveDeletesExactlyBatch ==
  [][(/\ last.op = "fetch"
      /\ last.result.present
      /\ held = last.result.removable
      /\ last'.op = "remove")
     => /\ items' = WithoutUids(items, UidsOf(held))
        /\ \A call \in AllFetchCalls :
             UidsOf(fetch_result(items', config, call[1], call[2]).removable)
               \cap UidsOf(held) = {}]_vars

(***************************************************************************)
(* C4.  remove called with tokens of an earlier fetch, after appends (with *)
(* or without evictions) and fetches in between, deletes exactly the       *)
(* fetched records that are still queued and never a record that was not   *)
(* in that batch, whatever its value.                                      *)
(***************************************************************************)
C4_RemoveByIdentityInterleaved ==
  [][(/\ last'.op = "remove"
      /\ last.op \in {"append", "fetch"}
      /\ ~(last.op = "fetch" /\ held = last.result.removable))
     => \A i \in 1..Len(items) :
          (items[i].uid \in UidsOf(held)) <=> (items[i].uid \notin UidsOf(items'))]_vars

(***************************************************************************)
(* C5.  remove called with tokens none of whose records is still queued    *)
(* returns success and leaves the queue unchanged, whatever was appended   *)
(* since (so a second remove with the same tokens changes nothing).        *)
(***************************************************************************)
C5_StaleRemoveIsNoOp ==
  [][(last'.op = "remove" /\ UidsOf(held) \cap UidsOf(items) = {})
     => (last'.ok /\ items' = items)]_vars

(***************************************************************************)
(* C6.  fetch is read-only: whatever its arguments, it leaves the store    *)
(* (queue, key counter, configuration, persistence state), the object      *)
(* store and the pending tasks as they were; and a fetch right after a     *)
(* fetch with the same arguments returns the same batch and tokens.        *)
(***************************************************************************)
C6_FetchReadOnly ==
  [][last'.op = "fetch"
     => /\ UNCHANGED <<store_vars, idb_vars, tasks>>
        /\ (last.op = "fetch" /\ last.count = last'.count
              /\ last.max_bytes = last'.max_bytes)
           => last'.result = last.result]_vars

C6_Witness ==
  /\ last.op = "fetch"
  /\ last.result.present
  /\ Len(last.result.removable) < Len(items)
  /\ tasks # <<>>

(***************************************************************************)
(* C7.  Within a session, a record that a fetch returned and whose token   *)
(* was not yet passed to remove is never dropped from the queue.           *)
(***************************************************************************)
C7_FetchedNeverDropped ==
  [][(session' = session /\ ~acked')
     => \A u \in UidsOf(held) \cap UidsOf(items) : u \in UidsOf(items')]_vars

(***************************************************************************)
(* C7, amended.  Within a session, a record that a fetch returned leaves   *)
(* the queue only by a remove whose tokens compare equal to it, by reset,  *)
(* or by an append that evicts it from the head because the queue grew     *)
(* over max_items; fetch, has_data and the durable tasks never drop it.    *)
(***************************************************************************)
C7_FetchedDroppedOnlyBy ==
  [][session' = session
     => \A i \in 1..Len(items) :
          (items[i].uid \in UidsOf(held) /\ items[i].uid \notin UidsOf(items'))
          => \/ last'.op = "reset"
             \/ last'.op = "remove" /\ matches(last'.tokens, items[i])
             \/ last'.op = "append" /\ i <= Len(items) + 1 - config.max_items]_vars

C7_Witness ==
  /\ last.op = "append"
  /\ held # <<>>
  /\ ~acked
  /\ Len(items) = config.max_items
  /\ UidsOf(held) \cap UidsOf(items) = {}
  /\ items[1].uid = held[Len(held)].uid + 1

(***************************************************************************)
(* C8.  After appends of at most max_items values to an empty queue,       *)
(* fetch(None, None) returns exactly the appended values, all of them, in  *)
(* insertion order.                                                        *)
(***************************************************************************)
C8_FetchAllReturnsAppended ==
  (/\ last.op = "fetch" /\ last.count = None /\ last.max_bytes = None
   /\ run.pure /\ run.vals # <<>> /\ Len(run.vals) <= config.max_items)
  => (last.result.present /\ last.result.batch = run.vals)

(***************************************************************************)
(* C8, amended.  After appends of at most max_items values to an empty     *)
(* queue, fetch(None, None) returns the appended values in insertion       *)
(* order up to the longest prefix whose sizes add up to at most            *)
(* max_fetch_size: all of them when they fit together, and nothing         *)
(* (absent) when the first alone does not fit.                             *)
(***************************************************************************)
C8_FetchAllWithinMaxFetchSize ==
  (/\ last.op = "fetch" /\ last.count = None /\ last.max_bytes = None
   /\ run.pure /\ run.vals # <<>> /\ Len(run.vals) <= config.max_items)
  => LET n == LongestPrefixWithin(AsItems(run.vals), config.max_fetch_size)
     IN  /\ last.result.batch = Prefix(run.vals, n)
         /\ last.result.present <=> n > 0
         /\ TotalSize(AsItems(run.vals)) <= config.max_fetch_size
              => last.result.batch = run.vals

C8_Witness ==
  /\ last.op = "fetch" /\ last.count = None /\ last.max_bytes = None
  /\ run.pure /\ Len(run.vals) = 2 /\ Len(run.vals) <= config.max_items
  /\ last.result.batch = run.vals
  /\ run.vals[1] # run.vals[2]

(***************************************************************************)
(* C9.  fetch(Some(n), None) returns at most n records, and exactly the n  *)
(* oldest, in order, when the queue holds at least n records.              *)
(***************************************************************************)
C9_FetchCountReturnsOldestN ==
  (last.op = "fetch" /\ last.count # None /\ last.max_bytes = None)
  => /\ Len(last.result.batch) <= last.count
     /\ Len(items) >= last.count
          => last.result.batch = ValuesOf(Prefix(items, last.count))

(***************************************************************************)
(* C9, amended.  fetch(Some(n), None) returns at most n records: the       *)
(* oldest records, in order, up to n of them and up to the longest prefix  *)
(* whose sizes add up to at most max_fetch_size; exactly the n oldest when *)
(* the queue holds at least n records and those n fit in max_fetch_size.   *)
(***************************************************************************)
C9_FetchCountWithinMaxFetchSize ==
  (last.op = "fetch" /\ last.count # None /\ last.max_bytes = None)
  => LET n == Min(last.count, LongestPrefixWithin(items, config.max_fetch_size))
     IN  /\ Len(last.result.batch) <= last.count
         /\ last.result.batch = ValuesOf(Prefix(items, n))
         /\ last.result.removable = Prefix(items, n)
         /\ last.result.present <=> n > 0
         /\ (/\ Len(items) >= last.count
             /\ TotalSize(Prefix(items, last.count)) <= config.max_fetch_size)
            => last.result.batch = ValuesOf(Prefix(items, last.count))

C9_Witness ==
  /\ last.op = "fetch" /\ last.count = 1 /\ last.max_bytes = None
  /\ Len(items) >= 2
  /\ last.result.batch = <<items[1].value>>

(***************************************************************************)
(* C10.  fetch(None, Some(b)) returns the longest prefix from the head     *)
(* whose sizes add up to at most b; when the oldest record alone is larger *)
(* than b the result is absent, not an error, although has_data() is true  *)
(* and later records would fit.                                            *)
(***************************************************************************)
C10_FetchBytesLongestPrefix ==
  (last.op = "fetch" /\ last.count = None /\ last.max_bytes # None)
  => LET n == LongestPrefixWithin(items, last.max_bytes)
     IN  /\ last.ok
         /\ last.result.batch = ValuesOf(Prefix(items, n))
         /\ last.result.removable = Prefix(items, n)
         /\ last.result.present <=> n > 0
         /\ (items # <<>> /\ get_item_size(items[1]) > last.max_bytes)
              => ~last.result.present

C10_Witness ==
  /\ last.op = "fetch" /\ last.count = None /\ last.max_bytes # None
  /\ items # <<>>
  /\ get_item_size(items[1]) > last.max_bytes
  /\ \E i \in 2..Len(items) : get_item_size(items[i]) <= last.max_bytes
  /\ ~last.result.present

(***************************************************************************)
(* C11.  fetch returns absent when the queue is empty; a present result    *)
(* holds at least one record, and its token list has one token per         *)
(* returned value, in the same order, each token being (and comparing      *)
(* equal to) the queue record at that position.                            *)
(***************************************************************************)
C11_FetchResultShape ==
  last.op = "fetch"
  => /\ items = <<>> => ~last.result.present
     /\ ~last.result.present
          => (last.result.batch = <<>> /\ last.result.removable = <<>>)
     /\ last.result.present
          => /\ Len(last.result.batch) >= 1
             /\ Len(last.result.removable) = Len(last.result.batch)
             /\ Len(last.result.batch) <= Len(items)
             /\ \A i \in 1..Len(last.result.batch) :
                  /\ last.result.batch[i] = items[i].value
                  /\ last.result.removable[i] = items[i]
                  /\ equals(last.result.removable[i], items[i])

C11_Witness ==
  /\ last.op = "fetch"
  /\ last.result.present
  /\ Len(last.result.batch) = 2
  /\ last.result.batch[1] # last.result.batch[2]

(***************************************************************************)
(* C12.  reset, in any state, empties the queue: right after it has_data() *)
(* is false and every fetch returns absent, and this stays so under every  *)
(* call and task that is not an append (or a new instance); the first      *)
(* append to the emptied queue leaves exactly the appended record in it.   *)
(***************************************************************************)
C12_ResetEmptiesUntilAppend ==
  [][/\ last'.op = "reset"
          => /\ items' = <<>>
             /\ \A call \in AllFetchCalls :
                  ~fetch_result(items', config, call[1], call[2]).present
     /\ (items = <<>> /\ last'.op \notin {"append", "new"})
          => /\ items' = <<>>
             /\ last'.op = "has_data" => ~last'.has
             /\ last'.op = "fetch" => ~last'.result.present
     /\ (items = <<>> /\ last'.op = "append")
          => /\ Len(items') = 1
             /\ items'[1].value = last'.value
             /\ items'[1].uid = next_uid]_vars

\* an append to a queue that a reset emptied: no token was ever kept, so the
\* pending delete can only come from a reset or an eviction, and the queue
\* was empty before this append
C12_Witness ==
  /\ last.op = "append"
  /\ run.pure /\ Len(run.vals) = 1
  /\ Len(items) = 1
  /\ held = <<>>
  /\ \E i \in 1..Len(tasks) : tasks[i].kind = "delete"

(***************************************************************************)
(* Helpers of the statements about the durable layer.                      *)
(***************************************************************************)
\* the object store once the tasks ts have all run to completion, in order
RECURSIVE Settled(_, _, _)
Settled(S, gen, ts) ==
  IF ts = <<>> THEN S
  ELSE IF Head(ts).kind = "write"
       THEN LET added == idb_add(S, gen, Head(ts).event)
            IN  Settled(added.idb, added.gen, Tail(ts))
       ELSE Settled(idb_delete(S, Head(ts).key), gen, Tail(ts))

\* a queue as the sequence of its records: which append made it, and its value
RecordsOf(q) == [i \in 1..Len(q) |-> [uid |-> q[i].uid, value |-> q[i].value]]

(***************************************************************************)
(* C13.  In Persisted state, when every task of an instance has run to     *)
(* completion without failure, a second instance constructed on the same   *)
(* database hydrates exactly the records that were in the first instance's *)
(* queue, in order.                                                        *)
(***************************************************************************)
C13_HydratesWhatWasQueued ==
  [][(last'.op = "new" /\ persistence_state = "Persisted")
     => RecordsOf(items') = RecordsOf(items)]_vars

(***************************************************************************)
(* C14.  In Persisted state, once the tasks pending at a reset and the     *)
(* deletes it dispatched have run to completion without failure, the       *)
(* object store holds none of the records that were in the queue at the    *)
(* reset, so a new instance hydrates none of them.                         *)
(***************************************************************************)
C14_ResetClearsDurable ==
  [][(last'.op = "reset" /\ persistence_state = "Persisted")
     => LET after == Settled(idb, idb_gen, tasks')
        IN  /\ \A r \in after : r.uid \notin UidsOf(items)
            /\ UidsOf(hydrate_items(after)) \cap UidsOf(items) = {}]_vars

(***************************************************************************)
(* Helpers of the statements about the synchronous calls.  InMemoryOutcome *)
(* is the effect and the result of a synchronous call computed from the    *)
(* call and the in-memory fields alone: the configuration, the queue and   *)
(* the key counter.                                                        *)
(***************************************************************************)
SyncOps == {"append", "fetch", "remove", "reset", "has_data"}

TaskOps == {"write_to_idb", "delete_from_idb", "task_fails"}

InMemoryOutcome(call, cfg, q, counter, uid) ==
  LET same == [items |-> q, counter |-> counter, ok |-> TRUE, has |-> FALSE,
               result |-> NoResult]
  IN  CASE call.op = "append" ->
             [same EXCEPT
                !.items = enforce_max_items(
                            Append(q, StoredEvent(counter, call.value, uid)),
                            cfg.max_items, <<>>).items,
                !.counter = counter + 1]
        [] call.op = "fetch" ->
             [same EXCEPT
                !.result = fetch_result(q, cfg, call.count, call.max_bytes)]
        [] call.op = "remove" ->
             [same EXCEPT !.items = remove_retain(q, call.tokens)]
        [] call.op = "reset" -> [same EXCEPT !.items = <<>>]
        [] call.op = "has_data" -> [same EXCEPT !.has = q # <<>>]

StepHasInMemoryOutcome ==
  /\ [items |-> items', counter |-> temp_key_counter', ok |-> last'.ok,
      has |-> last'.has, result |-> last'.result]
       = InMemoryOutcome(last', config, items, temp_key_counter, next_uid)
  /\ UNCHANGED <<config, db, persistence_state>>

(***************************************************************************)
(* C15.  When the database cannot be opened the store reports MemoryOnly,  *)
(* and a MemoryOnly store and a Persisted store that started on an empty   *)
(* object store give the same results and hold the same queue after every  *)
(* sequence of append, fetch, remove, reset and has_data calls: both start *)
(* with an empty queue and the key counter at 0, and in both every call    *)
(* has the outcome that the in-memory fields alone determine.              *)
(***************************************************************************)
C15_MemoryOnlySameAsPersisted ==
  [][/\ ~db' <=> persistence_state' = "MemoryOnly"
     /\ (last'.op = "new" /\ (~db' \/ idb = {}))
          => (items' = <<>> /\ temp_key_counter' = 0)
     /\ last'.op \in SyncOps => StepHasInMemoryOutcome]_vars

C15_Witness ==
  /\ persistence_state = "MemoryOnly"
  /\ last.op = "remove"
  /\ last.tokens # <<>>
  /\ items # <<>>
  /\ Len(run.vals) = 0
  /\ next_uid > config.max_items

(***************************************************************************)
(* C16.  The results of append, fetch, remove, reset and has_data and the  *)
(* queue depend only on the sequence of these calls: a durable task that   *)
(* succeeds or fails changes no in-memory field and no token the caller    *)
(* holds, and every call has the outcome that the in-memory fields alone   *)
(* determine, whatever tasks are pending and whatever the object store     *)
(* holds.                                                                  *)
(***************************************************************************)
C16_SyncCallsIgnoreDurableTasks ==
  [][/\ last'.op \in TaskOps => UNCHANGED <<store_vars, held, acked>>
     /\ last'.op \in SyncOps
          => /\ StepHasInMemoryOutcome
             /\ Len(tasks') >= Len(tasks)
             /\ SubSeq(tasks', 1, Len(tasks)) = tasks
             /\ UNCHANGED idb_vars]_vars

\* a fetch returns a record appended by this instance that the object store
\* does not hold and that no pending write will store
C16_Witness ==
  /\ db
  /\ last.op = "fetch"
  /\ last.result.present
  /\ \E i \in 1..Len(last.result.removable) :
       LET u == last.result.removable[i].uid
       IN  /\ \A r \in idb : r.uid # u
           /\ \A j \in 1..Len(tasks) : tasks[j].event.uid # u
  /\ tasks # <<>>

(***************************************************************************)
(* C17.  append and remove return success in every reachable state, in     *)
(* Persisted and in MemoryOnly mode, also when the append evicts records   *)
(* and when durable tasks have failed.  (Key counters of the model stay    *)
(* far below the width of the counter.)                                    *)
(***************************************************************************)
C17_AppendRemoveSucceed ==
  last.op \in {"append", "remove"} => last.ok

C17_Witness ==
  /\ last.op = "remove"
  /\ last.ok
  /\ last.tokens # <<>>
  /\ \A i \in 1..Len(last.tokens) : last.tokens[i].uid < next_uid - Len(items)
  /\ Len(items) = config.max_items
  /\ tasks = <<>>
  /\ db
  /\ \E i \in 1..Len(items) : \A r \in idb : r.uid # items[i].uid

(***************************************************************************)
(* C18.  The persistence state is fixed at construction: no call and no    *)
(* outcome of a durable task changes persistence_state() of an instance,   *)
(* it is Persisted or MemoryOnly, and is_persisted() is true exactly when  *)
(* it is Persisted.                                                        *)
(***************************************************************************)
C18_PersistenceStateFixed ==
  [][/\ session' = session => persistence_state' = persistence_state
     /\ persistence_state' \in {"Persisted", "MemoryOnly"}
     /\ is_persisted' <=> persistence_state' = "Persisted"]_vars

C18_Witness ==
  /\ last.op = "task_fails"
  /\ persistence_state = "Persisted"
  /\ is_persisted
  /\ items # <<>>
  /\ idb = {}

(***************************************************************************)
(* C20.  WebStore::new with max_items = 0 or with max_fetch_size below the *)
(* minimum of 100 bytes fails at once: no instance is produced, and the    *)
(* database is neither opened (no handle) nor read (nothing is hydrated    *)
(* from it, nothing in it changes, no task is dispatched).                 *)
(***************************************************************************)
C20_InvalidConfigPanics ==
  (config.max_items = 0 \/ config.max_fetch_size < 100)
  => /\ session = 0
     /\ last.op \in {"none", "new"}
     /\ last.op = "new" => ~last.ok
     /\ ~db
     /\ items = <<>>
     /\ tasks = <<>>
     /\ \E existing \in ExistingStores :
          idb = existing.idb /\ idb_gen = existing.gen

C20_Witness ==
  /\ config.max_items = 0
  /\ config.max_fetch_size >= 100
  /\ last.op = "new"
  /\ ~last.ok
  /\ idb # {}

(***************************************************************************)
(* C19.  With several callers on one TransientDB every execution is a      *)
(* serial execution of their calls on the wrapped store: at most one       *)
(* caller is inside a call and it holds the Mutex; the store changes only  *)
(* in the call of the holder, which is the store's own method applied to   *)
(* the queue as the previous calls left it; and each caller gets the       *)
(* result that this method returned, unchanged.                            *)
(***************************************************************************)
C19_CallsAreSerial ==
  [][/\ \A c \in Callers : callers'[c].pc = "locked" <=> mutex' = c
     /\ \A c, d \in Callers :
          (callers'[c].pc = "locked" /\ callers'[d].pc = "locked") => c = d
     /\ last'.op \in SyncOps /\ last' # last
          => /\ mutex # 0 /\ callers[mutex].pc = "locked" /\ last.op = "lock"
             /\ StepHasInMemoryOutcome
             /\ UNCHANGED wrapper_vars
     /\ <<items, temp_key_counter>> # <<items', temp_key_counter'>>
          => (last'.op \in SyncOps /\ last.op = "lock")
     /\ \A c \in Callers :
          (callers[c].pc = "locked" /\ callers'[c].pc = "idle")
          => /\ callers'[c].ret = last
             /\ last.op \in SyncOps
             /\ mutex' = 0
             /\ UNCHANGED <<store_vars, idb_vars, tasks, last>>]_vars

\* one caller has returned from an append, and the other returns from a
\* fetch of two records while tasks are pending
C19_Witness ==
  /\ mutex = 0
  /\ callers[1].ret.op = "append"
  /\ callers[2].ret.op = "fetch"
  /\ callers[2].ret = last
  /\ callers[2].ret.result.present
  /\ Len(callers[2].ret.result.batch) = 2
  /\ tasks # <<>>

(***************************************************************************)
(* The caller loop of test_transientdb_rapid_fetch_remove_cycle: while     *)
(* has_data() is true, fetch(Some(n), None) and remove exactly the         *)
(* returned tokens.  received: the records of the batches in the order of  *)
(* receipt; ended: the loop was left (has_data() returned false), and not  *)
(* abandoned in a state where fetch returns None for ever.                 *)
(***************************************************************************)
RECURSIVE DrainLoop(_, _, _, _)
DrainLoop(q, cfg, n, received) ==
  IF q = <<>> THEN [received |-> received, left |-> q, ended |-> TRUE]
  ELSE LET result == fetch_result(q, cfg, n, None)
       IN  IF ~result.present
           THEN [received |-> received, left |-> q, ended |-> FALSE]
           ELSE DrainLoop(remove_retain(q, result.removable), cfg, n,
                          received \o result.removable)

DrainCounts == {1, 2}

\* C21: with no concurrent appends, the loop "while has_data(): fetch(Some(n),
\* None), remove the returned tokens" (n >= 1, every record within the byte
\* limit) receives the queued records in FIFO order, each exactly once, and
\* ends with an empty queue.
C21_DrainLoopFifo ==
  \A n \in DrainCounts :
    (\A i \in 1..Len(items) : get_item_size(items[i]) <= config.max_fetch_size)
      => LET drained == DrainLoop(items, config, n, <<>>)
         IN  /\ drained.ended
             /\ drained.left = <<>>
             /\ RecordsOf(drained.received) = RecordsOf(items)

\* C23: has_data() returns true exactly when the in-memory queue is not
\* empty, in whatever state it is called, and the call changes neither the
\* queue nor the object store nor the pending durable tasks.
C23_HasDataIffQueueNonEmpty ==
  [][last'.op = "has_data"
       => /\ last'.has = (items # <<>>)
          /\ UNCHANGED <<store_vars, idb_vars, tasks>>]_vars

\* has_data() answered true while the object store was still empty, and
\* the write of the queued record was pending
C23_Witness ==
  /\ last.op = "has_data"
  /\ last.has
  /\ items # <<>>
  /\ idb = {}
  /\ tasks # <<>>

\* C25: a store whose construction failed at either step, open_database or
\* hydrate, reports MemoryOnly.
C25_FailedConstructionIsMemoryOnly ==
  [][\A open_ok, hydrate_ok \in BOOLEAN :
       (new(open_ok, hydrate_ok) /\ ~(open_ok /\ hydrate_ok))
         => persistence_state' = "MemoryOnly"]_vars

\* C26: a failing hydrate does not abort construction: WebStore::new returns
\* a store whose queue is empty (nothing partially hydrated) and whose key
\* counter is 0, and every synchronous call made on a constructed store,
\* this one included, succeeds with the outcome the in-memory queue gives.
C26_HydrateFailureStartsFresh ==
  [][/\ new(TRUE, FALSE)
          => /\ last' = Call("new")
             /\ items' = <<>>
             /\ temp_key_counter' = 0
             /\ db'
     /\ (last'.op \in SyncOps /\ last' # last)
          => (last'.ok /\ StepHasInMemoryOutcome)]_vars

\* The object store held a record under a generated key when the second
\* instance was constructed, yet its first append got key 0: hydrate had
\* failed.  The store has a handle, queued the record and returned it from
\* fetch.
C26_Witness ==
  /\ session = 2
  /\ db
  /\ \E r \in idb : r.pk.kind = "num" /\ r.uid = 0
  /\ Len(items) = 1
  /\ items[1].uid = 1
  /\ items[1].idb_key = 0
  /\ last.op = "fetch"
  /\ last.result.present
  /\ last.result.removable = items

\* C27: a store in MemoryOnly state starts with an empty queue and never
\* touches the durable layer: none of its calls (append with or without
\* eviction, remove, reset, fetch, has_data) dispatches a write or a delete
\* or changes the object store; and the database handle is present exactly
\* when the state is Persisted.
C27_MemoryOnlyNeverTouchesDurable ==
  [][/\ db <=> persistence_state = "Persisted"
     /\ db' <=> persistence_state' = "Persisted"
     /\ (last'.op = "new" /\ persistence_state' = "MemoryOnly") => items' = <<>>
     /\ (last'.op \in SyncOps /\ persistence_state = "MemoryOnly")
          => (tasks' = tasks /\ UNCHANGED idb_vars)]_vars

\* A MemoryOnly store with max_items = 1 took a second append, which
\* evicted the first record, and nothing was dispatched
C27_Witness ==
  /\ persistence_state = "MemoryOnly"
  /\ ~db
  /\ session = 1
  /\ config.max_items = 1
  /\ last.op = "append"
  /\ Len(items) = 1
  /\ items[1].uid = 1
  /\ tasks = <<>>
  /\ idb = {}

\* C28: within the life of a store, a record leaves the queue only by a
\* remove whose tokens match it, by eviction from the head in an append that
\* pushed the length above max_items, or by reset; the records that stay
\* keep their order, only append adds a record (one, at the tail), and
\* has_data, fetch and the completion or failure of a durable task leave
\* the queue as it is.
C28_QueueChangesOnlyBy ==
  [][session' = session
     => LET left == UidsOf(items) \ UidsOf(items')
            added == UidsOf(items') \ UidsOf(items)
        IN  /\ \A i \in 1..Len(items) :
                 items[i].uid \in left
                 => \/ last'.op = "reset"
                    \/ last'.op = "remove" /\ matches(last'.tokens, items[i])
                    \/ /\ last'.op = "append"
                       /\ Len(items) + 1 > config.max_items
                       /\ i <= Len(items) + 1 - config.max_items
            /\ WithoutUids(items, left) = WithoutUids(items', added)
            /\ added # {}
                 => /\ last'.op = "append"
                    /\ added = {next_uid}
                    /\ items'[Len(items')].uid = next_uid
            /\ last'.op \in {"has_data", "fetch"} \cup TaskOps => items' = items]_vars

\* Two records were queued, a remove dropped the fetched one, and the two
\* writes and the delete completed: the other record is still queued
C28_Witness ==
  /\ last.op = "delete_from_idb"
  /\ tasks = <<>>
  /\ acked
  /\ held # <<>>
  /\ Len(items) = 1
  /\ items[1].uid = 1
  /\ UidsOf(held) = {0}

\* the tasks a step appended to the pending tasks
Dispatched == SubSeq(tasks', Len(tasks) + 1, Len(tasks'))

\* the records a step dropped from the queue, in queue order
Dropped == SelectSeq(items, LAMBDA item : item.uid \notin UidsOf(items'))

\* C29: in Persisted state, each record that remove, reset or the eviction
\* of append drops from the queue has exactly one durable delete dispatched
\* for it, carrying its identity key, and no delete is dispatched for a
\* record that stays in the queue.
C29_OneDeletePerDroppedRecord ==
  [][(persistence_state = "Persisted" /\ session' = session
      /\ last'.op \in {"remove", "reset", "append"})
     => LET deletes == SelectSeq(Dispatched, LAMBDA t : t.kind = "delete")
        IN  /\ [i \in 1..Len(deletes) |-> deletes[i].key]
                 = [i \in 1..Len(Dropped) |-> Dropped[i].idb_key]
            /\ \A i \in 1..Len(deletes) : \A j \in 1..Len(items') :
                 items'[j].idb_key # deletes[i].key]_vars

\* C30: no durable task runs while the wrapper's lock is held.  A call that
\* dispatches tasks only queues them behind the pending ones; a task runs
\* in a step of its own, when no caller holds the Mutex, and it neither
\* takes the Mutex nor touches the wrapper or the store behind it.
C30_TasksRunOutsideLock ==
  [][/\ Len(tasks') < Len(tasks)
          => /\ mutex = 0
             /\ \A c \in Callers : callers[c].pc = "idle"
             /\ last'.op \in TaskOps
             /\ UNCHANGED <<wrapper_vars, store_b, store_vars>>
     /\ Len(tasks') > Len(tasks)
          => /\ mutex # 0
             /\ last'.op \in SyncOps
             /\ Prefix(tasks', Len(tasks)) = tasks
             /\ UNCHANGED idb_vars
     /\ mutex # 0 => UNCHANGED idb_vars]_vars

\* The write an append dispatched completed after the caller had got the
\* result of the call and released the Mutex
C30_Witness ==
  /\ last.op = "write_to_idb"
  /\ mutex = 0
  /\ \E c \in Callers : callers[c].ret.op = "append"
  /\ \E r \in idb : r.uid = 0
  /\ tasks = <<>>

\* C22: every call on the wrapper returns, with the Mutex released, as long
\* as the caller that holds the Mutex is scheduled: whenever a caller is
\* inside a call, a state follows in which the Mutex is free and no caller
\* is inside a call.  The call waits for no durable task (none of them need
\* ever run), and as the Mutex is free again and again no interleaving of
\* callers ends in a deadlock.
C22_EveryCallReturns ==
  (mutex # 0) ~> (mutex = 0 /\ \A c \in Callers : callers[c].pc = "idle")

\* A caller has the result of its append and the Mutex is free while both
\* durable tasks the calls dispatched are still pending
C22_Witness ==
  /\ mutex = 0
  /\ \A c \in Callers : callers[c].pc = "idle"
  /\ \E c \in Callers : callers[c].ret.op = "append"
  /\ Len(tasks) = 2
  /\ idb = {}

\* C24: two stores constructed with different database names are isolated.
\* A call on one store, or a durable task of it, leaves the other store's
\* queue and the records of the other store's database unchanged; every
\* durable record lies in the database of the store it was appended to; and
\* the records a fetch returns were appended to the store it was called on.
C24_StoresIsolated ==
  [][/\ last'.op \in SyncOps \cup {"write_to_idb", "delete_from_idb"}
          => store_b' = store_b
     /\ last'.op \in OpsOfB
          => UNCHANGED <<store_vars, idb_vars, held, acked>>
     /\ \A r \in idb' : r.uid \notin store_b'.appended
     /\ \A r \in store_b'.idb : r.uid \in store_b'.appended
     /\ last'.op = "fetch"
          => UidsOf(last'.result.removable) \cap store_b.appended = {}
     /\ last'.op = "fetch_b"
          => UidsOf(last'.result.removable) \subseteq store_b.appended]_vars

\* Each store was given one record and each database holds the record of
\* its store; the fetch on the second store returned its record alone
C24_Witness ==
  /\ last.op = "fetch_b"
  /\ UidsOf(last.result.removable) = {1}
  /\ UidsOf(items) = {0}
  /\ UidsOf(store_b.items) = {1}
  /\ {r.uid : r \in idb} = {0}
  /\ {r.uid : r \in store_b.idb} = {1}
  /\ tasks = <<>>

C36_AppendedIsTail ==
  last.op = "append"
  => /\ items # <<>>
     /\ items[Len(items)].value = last.value
     /\ items[Len(items)].uid = next_uid - 1
     /\ last.ok

\* the append evicted the older record of a store with max_items = 1
C36_Witness ==
  /\ last.op = "append"
  /\ config.max_items = 1
  /\ next_uid = 2
  /\ session = 1
  /\ Len(items) = 1
  /\ items[1].uid = 1

\* C34: in Persisted state with no durable failure, once every dispatched
\* task has completed the object store holds exactly the records of the
\* in-memory queue, after any appends, evictions, removes and resets.
C34_SettledDurableEqualsQueue ==
  (persistence_state = "Persisted" /\ tasks = <<>>)
  => {r.uid : r \in idb} = UidsOf(items)

\* C35: the durable write of a record appended in Persisted state stores it
\* under the identity key append gave it in memory, so that the delete
\* dispatched with the in-memory key deletes that record and no other.
C35_DurableKeyIsMemoryKey ==
  [][(last'.op = "write_to_idb" /\ tasks # <<>> /\ Len(tasks') < Len(tasks))
     => \A r \in idb' \ idb : r.pk = NumKey(Head(tasks).event.idb_key)]_vars

\* C32: two tokens of the store compare equal exactly when both carry an
\* identity key and the keys are the same, or when at least one carries no
\* key and their values are the same; a token of another concrete type
\* never compares equal.
C32_EqualsByKeyElseValue ==
  last.op = "equals"
  => LET a == last.self
         b == last.other
     IN  last.result
           <=> /\ "idb_key" \in DOMAIN b
               /\ \/ a.idb_key # None /\ b.idb_key # None /\ a.idb_key = b.idb_key
                  \/ (a.idb_key = None \/ b.idb_key = None) /\ a.value = b.value

\* a token without key compared equal to a keyed record of the same value
C32_Witness ==
  /\ last.op = "equals"
  /\ last.result
  /\ last.self.idb_key = None
  /\ "idb_key" \in DOMAIN last.other
  /\ last.other.idb_key # None
  /\ last.self.value = last.other.value

\* C38: the 32-bit key counter never repeats a key: every append assigns a
\* key strictly greater than every key that is in the queue, hydrated or
\* assigned before, also when the counter or the largest hydrated key,
\* narrowed from 64 to 32 bits, is at u32::MAX.
C38_KeysNeverRepeat ==
  [][(last'.op = "append" /\ last'.ok /\ next_uid' = next_uid + 1)
     => \A i \in 1..Len(items) :
          U32Less(items[i].idb_key, items'[Len(items')].idb_key)]_vars

\* C31: in every reachable state the identity keys of the queued records are
\* pairwise distinct, the keys of the records appended in the session grow
\* strictly from head to tail, and no appended record has the key of a
\* hydrated one.
C31_KeysDistinctIncreasing ==
  Constructed
  => \A i, j \in 1..Len(items) :
       i < j
       => /\ items[i].idb_key # items[j].idb_key
          /\ (items[i].uid # None /\ items[j].uid # None)
               => U32Less(items[i].idb_key, items[j].idb_key)

\* C37: through the wrapper, reset() and has_data() complete without failure
\* in every reachable state, also after an earlier call on the same wrapper
\* panicked inside the store while the Mutex was held.
C37_ResetHasDataNeverFail ==
  [][last'.op \in {"reset", "has_data"} => last'.ok]_vars

\* C17, at the limit of the key counter: an append through the wrapper
\* returns success in every reachable state, whatever the value of
\* temp_key_counter.
C17_AppendSucceedsAtKeyLimit ==
  [][(last'.op = "append" /\ mutex = 0) => last'.ok]_vars

====
